---- MODULE Spec2Model ----
(***************************************************************************)
(* Model of src/sub.py: the channel enumeration obtener_shorts_del_canal,   *)
(* the transcript acquisition generar_transcripcion, the run of main that  *)
(* calls both, the clean-up of a transcript body, and the two caches.      *)
(*                                                                         *)
(* Text is modelled as a sequence of one-character strings so that the     *)
(* string operations of the source (find, slicing, split, replace, int)    *)
(* are computed as Python computes them.                                   *)
(***************************************************************************)
EXTENDS Integers, Sequences, FiniteSets, TLC

(***************************************************************************)
(* Bounds of the model.  Cap and PageSize stand for the two literals 50 of *)
(* the source (the loop limit of line 104 and maxResults of line 99),      *)
(* scaled down with PageSize <= Cap kept; every formula is stated relative *)
(* to them.  MaxPages bounds the channel's search pages and MaxCalls the   *)
(* calls of generar_transcripcion.  MaxPieces bounds the length of the     *)
(* bodies given to the clean-up; MaxTicks and MaxOps bound the clock steps *)
(* and the calls of the cached functions.                                  *)
(***************************************************************************)
Cap == 3
PageSize == 2
MaxPages == 3
MaxCalls == 2
MaxPieces == 3
MaxTicks == 2
MaxOps == 2

VARIABLES
    ePc,            \* position in obtener_shorts_del_canal
    request,        \* TRUE while a search request object exists (line 96, 138)
    shorts_info,    \* the accumulated ShortRecords (line 93)
    pageLen,        \* number of items of the current response (line 115)
    idx,            \* number of items of the current response already iterated
    nextAvail,      \* the current response carries a next-page cursor
    video_response, \* the metadata response of the current item (line 119)
    eResult,        \* the value returned by obtener_shorts_del_canal
    pages,          \* number of search pages requested so far
    qualifying,     \* history: records of the processed videos that are short-form by the rule
    fatal,          \* history: why the enumeration aborted ("none" if it did not)
    failPage,       \* history: the page of the first lookup that raised HttpError, 0 if none
    lastClass,      \* history: outcome of the last duration test
    tPc,            \* position in generar_transcripcion
    url,            \* the argument of generar_transcripcion
    session,        \* identity of the requests.Session of the current call (line 164)
    service,        \* what the extraction service answers during the current call
    reqs,           \* the HTTP requests the current call has issued, in order
    csrf_token,     \* line 176
    transcript_url, \* line 206
    tResult,        \* the value returned by generar_transcripcion
    calls,          \* number of calls made so far
    mPc,            \* position in main
    max_shorts,     \* the value of the slider (lines 263-269)
    selected,       \* shorts_info of main after the cut of line 287
    loop_i,         \* i of the for loop of line 295
    status_text,    \* what status_text shows (line 296)
    transcript,     \* line 298
    results_df,     \* the rows of the result table (lines 288, 307)
    progress,       \* the values given to progress_bar.progress, in order (line 308)
    sleeps,         \* number of time.sleep(1) calls made (line 309)
    signal,         \* the message main has shown the user (lines 276, 283, 311)
    returned,       \* history: the values generar_transcripcion returned to main, in order
    nPc,            \* how many times the clean-up of lines 212-213 has been applied
    nText,          \* a transcript body
    nOnce,          \* the body cleaned once
    nTwice,         \* the body cleaned twice
    now,            \* the clock, in seconds
    ticks,          \* number of times the clock has advanced
    upstream,       \* "up" or "down": whether the platform and the service answer
    ecache,         \* the entries of the cache of obtener_shorts_del_canal (line 80)
    tcache,         \* the entries of the cache of generar_transcripcion (line 156)
    lastOp,         \* the last call of a cached function: what it found, did and returned
    ops             \* number of calls of the cached functions

enumVars == <<ePc, request, shorts_info, pageLen, idx, nextAvail, video_response,
              eResult, pages, qualifying, fatal, failPage, lastClass>>

transVars == <<tPc, url, session, service, reqs, csrf_token, transcript_url, tResult, calls>>

mainVars == <<mPc, max_shorts, selected, loop_i, status_text, transcript, results_df,
              progress, sleeps, signal, returned>>

normVars == <<nPc, nText, nOnce, nTwice>>

cacheVars == <<now, ticks, upstream, ecache, tcache, lastOp, ops>>

vars == <<enumVars, transVars, mainVars, normVars, cacheVars>>

(***************************************************************************)
(* Python string primitives on sequences of characters (0-based indices).  *)
(***************************************************************************)
Range(s) == {s[i] : i \in 1..Len(s)}

Min(a, b) == IF a < b THEN a ELSE b

Max(a, b) == IF a > b THEN a ELSE b

\* s.find(sub, start): lowest index >= start at which sub occurs, else -1
PyFind(s, sub, start) ==
    LET hits == {i \in start..(Len(s) - Len(sub)) : SubSeq(s, i + 1, i + Len(sub)) = sub}
    IN  IF hits = {} THEN -1 ELSE CHOOSE i \in hits : \A j \in hits : i <= j

\* s[a:b] for a >= 0 and any integer b (a negative b counts from the end)
PySlice(s, a, b) ==
    LET hi == IF b < 0 THEN Max(Len(s) + b, 0) ELSE Min(b, Len(s))
        lo == Min(a, Len(s))
    IN  IF lo >= hi THEN <<>> ELSE SubSeq(s, lo + 1, hi)

\* s.split(sep)[0] for a one-character sep
SplitFirst(s, sep) ==
    LET i == PyFind(s, <<sep>>, 0)
    IN  IF i = -1 THEN s ELSE SubSeq(s, 1, i)

\* s.replace(old, '') : every non-overlapping occurrence removed, left to right
RECURSIVE PyRemove(_, _)
PyRemove(s, old) ==
    LET i == PyFind(s, old, 0)
    IN  IF i = -1 THEN s
        ELSE SubSeq(s, 1, i) \o PyRemove(SubSeq(s, i + Len(old) + 1, Len(s)), old)

DigitChars == {"0", "1", "2", "3", "4", "5", "6", "7", "8", "9"}

DigitVal(c) ==
    CASE c = "0" -> 0 [] c = "1" -> 1 [] c = "2" -> 2 [] c = "3" -> 3 [] c = "4" -> 4
      [] c = "5" -> 5 [] c = "6" -> 6 [] c = "7" -> 7 [] c = "8" -> 8 [] c = "9" -> 9

\* int(s) accepts a non-empty run of decimal digits (no sign or blank occurs here)
PyIntOk(s) == Len(s) > 0 /\ \A i \in 1..Len(s) : s[i] \in DigitChars

RECURSIVE PyIntVal(_)
PyIntVal(s) ==
    IF Len(s) = 0 THEN 0
    ELSE 10 * PyIntVal(SubSeq(s, 1, Len(s) - 1)) + DigitVal(s[Len(s)])

\* str(n) for 0 <= n < 100
Digits(n) ==
    LET d(k) == CASE k = 0 -> "0" [] k = 1 -> "1" [] k = 2 -> "2" [] k = 3 -> "3"
                  [] k = 4 -> "4" [] k = 5 -> "5" [] k = 6 -> "6" [] k = 7 -> "7"
                  [] k = 8 -> "8" [] k = 9 -> "9"
    IN  IF n < 10 THEN <<d(n)>> ELSE <<d(n \div 10), d(n % 10)>>

(***************************************************************************)
(* The platform's duration codes: PT[hH][mM][sS], a component left out     *)
(* when absent (-1), and two malformed codes.                              *)
(***************************************************************************)
Absent == -1

DurationCode(d) ==
    <<"P", "T">>
      \o (IF d.h = Absent THEN <<>> ELSE Digits(d.h) \o <<"H">>)
      \o (IF d.m = Absent THEN <<>> ELSE Digits(d.m) \o <<"M">>)
      \o (IF d.s = Absent THEN <<>> ELSE Digits(d.s) \o <<"S">>)

\* PT30S, PT0M30S, PT1M, PT12M30S, PT1H, PT1H5M, PT1H0M30S
WellFormed ==
    {[h |-> Absent, m |-> Absent, s |-> 30],
     [h |-> Absent, m |-> 0, s |-> 30],
     [h |-> Absent, m |-> 1, s |-> Absent],
     [h |-> Absent, m |-> 12, s |-> 30],
     [h |-> 1, m |-> Absent, s |-> Absent],
     [h |-> 1, m |-> 5, s |-> Absent],
     [h |-> 1, m |-> 0, s |-> 30]}

Malformed == {<<>>, <<"P", "T", "x", "M">>}

\* what videos().list() can answer for one video
MetaResponses ==
    {[kind |-> "HttpError", wf |-> FALSE, d |-> [h |-> Absent, m |-> Absent, s |-> Absent],
      duration |-> <<>>]}
      \cup {[kind |-> "noitems", wf |-> FALSE, d |-> [h |-> Absent, m |-> Absent, s |-> Absent],
             duration |-> <<>>]}
      \cup {[kind |-> "video", wf |-> TRUE, d |-> d, duration |-> DurationCode(d)] :
               d \in WellFormed}
      \cup {[kind |-> "video", wf |-> FALSE, d |-> [h |-> Absent, m |-> Absent, s |-> Absent],
             duration |-> c] : c \in Malformed}

NoMeta ==
    [kind |-> "none", wf |-> FALSE, d |-> [h |-> Absent, m |-> Absent, s |-> Absent],
     duration |-> <<>>]

\* the duration test of line 127: "short", "notshort", or the ValueError of int()
ShortTest(duration) ==
    IF "M" \notin Range(duration) THEN "short"
    ELSE LET minutes == PyRemove(SplitFirst(duration, "M"), <<"P", "T">>)
         IN  IF ~PyIntOk(minutes) THEN "ValueError"
             ELSE IF PyIntVal(minutes) < 1 THEN "short" ELSE "notshort"

\* the rule the test stands for: no minutes component, or minutes < 1
RuleShort(meta) == meta.kind = "video" /\ meta.wf /\ (meta.d.m = Absent \/ meta.d.m < 1)

(***************************************************************************)
(* Search items and ShortRecords.                                          *)
(***************************************************************************)
SearchItems == {[videoId |-> "a", title |-> "A"], [videoId |-> "b", title |-> "B"]}

ShortsUrl(video_id) == <<"https://www.youtube.com/shorts/", video_id>>

\* the dict appended at lines 128-132
ShortRecord(it) ==
    [video_id |-> it.videoId, title |-> it.title, url |-> ShortsUrl(it.videoId)]

(***************************************************************************)
(* obtener_shorts_del_canal                                                *)
(***************************************************************************)
EnumInit ==
    /\ ePc = "idle"
    /\ request = FALSE
    /\ shorts_info = <<>>
    /\ pageLen = 0
    /\ idx = 0
    /\ nextAvail = FALSE
    /\ video_response = NoMeta
    /\ eResult = <<>>
    /\ pages = 0
    /\ qualifying = <<>>
    /\ fatal = "none"
    /\ failPage = 0
    /\ lastClass = "none"

\* lines 90-101: the client is built, the list is empty, the first request exists
\* (GOOGLE_API_AVAILABLE is true whenever the function can be called: line 49 stops
\* the script otherwise)
EnumCall ==
    /\ ePc = "idle"
    /\ ePc' = "loop"
    /\ request' = TRUE
    /\ shorts_info' = <<>>
    /\ UNCHANGED <<pageLen, idx, nextAvail, video_response, eResult, pages,
                   qualifying, fatal, failPage, lastClass>>

\* line 104 without the test of request
LoopCondCapOnly(req, info) == Len(info) < Cap

\* the loop condition of line 104
LoopCond(req, info) == req /\ Len(info) < Cap

\* line 104, and the return of line 150 when the loop ends
LoopTest ==
    /\ ePc = "loop"
    /\ IF LoopCond(request, shorts_info)
       THEN /\ ePc' = "execute"
            /\ UNCHANGED eResult
       ELSE /\ ePc' = "done"
            /\ eResult' = shorts_info
    /\ UNCHANGED <<request, shorts_info, pageLen, idx, nextAvail, video_response,
                   pages, qualifying, fatal, failPage, lastClass>>

\* the handlers returning what was accumulated instead of the empty list
PageFailureKeepsPartial(info) == info

\* what the handlers of lines 109-112 and 140-148 return
PageFailureResult(info) == <<>>

\* lines 106-112 and 140-148: one search page is requested
Execute ==
    /\ ePc = "execute"
    /\ pages' = pages + 1
    /\ \E outcome \in {"HttpError", "errorBody", "page"} :
         IF outcome = "page"
         THEN /\ \E n \in 0..PageSize, more \in BOOLEAN :
                   /\ more => pages + 1 < MaxPages
                   /\ pageLen' = n
                   /\ idx' = 0
                   /\ nextAvail' = more
              /\ ePc' = "items"
              /\ UNCHANGED <<eResult, fatal>>
         ELSE /\ ePc' = "done"
              /\ eResult' = PageFailureResult(shorts_info)
              /\ fatal' = outcome
              /\ UNCHANGED <<pageLen, idx, nextAvail>>
    /\ UNCHANGED <<request, shorts_info, video_response, qualifying, failPage,
                   lastClass>>

\* the handler of lines 133-135 ending the enumeration instead of continuing
AfterLookupErrorAbort == "done"

\* where the handler of lines 133-135 leaves the loop: at the next item
AfterLookupError == "items"

\* lines 115-135 (and 152-154 when int() raises): one iteration of the for loop,
\* the metadata lookup of the next item and the duration test
ProcessItem ==
    /\ ePc = "items"
    /\ idx < pageLen
    /\ idx' = idx + 1
    /\ \E it \in SearchItems, meta \in MetaResponses :
         /\ video_response' = meta
         /\ qualifying' = IF RuleShort(meta)
                          THEN Append(qualifying, ShortRecord(it)) ELSE qualifying
         /\ CASE meta.kind = "HttpError" ->
                   /\ ePc' = AfterLookupError
                   /\ failPage' = IF failPage = 0 THEN pages ELSE failPage
                   /\ lastClass' = "HttpError"
                   /\ UNCHANGED <<shorts_info, eResult, fatal>>
              [] meta.kind = "noitems" ->
                   /\ ePc' = "items"
                   /\ lastClass' = "noitems"
                   /\ UNCHANGED <<shorts_info, eResult, fatal, failPage>>
              [] meta.kind = "video" ->
                   LET t == ShortTest(meta.duration)
                   IN  /\ lastClass' = t
                       /\ UNCHANGED failPage
                       /\ IF t = "ValueError"
                          THEN /\ ePc' = "done"
                               /\ eResult' = <<>>
                               /\ fatal' = "ValueError"
                               /\ UNCHANGED shorts_info
                          ELSE /\ ePc' = "items"
                               /\ shorts_info' = IF t = "short"
                                                 THEN Append(shorts_info, ShortRecord(it))
                                                 ELSE shorts_info
                               /\ UNCHANGED <<eResult, fatal>>
    /\ UNCHANGED <<request, pageLen, nextAvail, pages>>

\* line 138: list_next gives the next request, or None after the last page
ListNext ==
    /\ ePc = "items"
    /\ idx = pageLen
    /\ request' = nextAvail
    /\ ePc' = "loop"
    /\ UNCHANGED <<shorts_info, pageLen, idx, nextAvail, video_response, eResult,
                   pages, qualifying, fatal, failPage, lastClass>>

(***************************************************************************)
(* html.unescape, restricted to the character references that occur in     *)
(* Texts: amp and lt, with or without the closing semicolon.               *)
(***************************************************************************)
Html5 == {<<<<"a", "m", "p", ";">>, <<"&">>>>, <<<<"a", "m", "p">>, <<"&">>>>,
          <<<<"l", "t", ";">>, <<"<">>>>, <<<<"l", "t">>, <<"<">>>>}

Html5Names == {e[1] : e \in Html5}

Html5Value(name) == (CHOOSE e \in Html5 : e[1] = name)[2]

\* the characters that end a named reference: [^\t\n\f <&#;]
NameStop == {"\t", "\n", "\f", " ", "<", "&", "#", ";"}

\* length of the longest prefix of s made of name characters
RECURSIVE NameRun(_)
NameRun(s) ==
    IF s = <<>> \/ Head(s) \in NameStop THEN 0 ELSE 1 + NameRun(Tail(s))

\* html._replace_charref for a named reference ref (the text after '&')
ReplaceCharref(ref) ==
    IF ref \in Html5Names THEN Html5Value(ref)
    ELSE LET fits == {x \in 2..(Len(ref) - 1) : SubSeq(ref, 1, x) \in Html5Names}
         IN  IF fits = {} THEN <<"&">> \o ref
             ELSE LET x == CHOOSE y \in fits : \A z \in fits : z <= y
                  IN  Html5Value(SubSeq(ref, 1, x)) \o SubSeq(ref, x + 1, Len(ref))

\* html.unescape: one left-to-right pass, the replacements are not rescanned
RECURSIVE Unescape(_)
Unescape(s) ==
    IF s = <<>> THEN <<>>
    ELSE IF Head(s) # "&" THEN <<Head(s)>> \o Unescape(Tail(s))
    ELSE LET rest == Tail(s)
             n == NameRun(rest)
             semi == IF n < Len(rest) /\ rest[n + 1] = ";" THEN 1 ELSE 0
         IN  IF n = 0 THEN <<"&">> \o Unescape(rest)
             ELSE ReplaceCharref(SubSeq(rest, 1, n + semi))
                    \o Unescape(SubSeq(rest, n + semi + 1, Len(rest)))

\* str.splitlines for the line break "\n"
RECURSIVE SplitLines(_)
SplitLines(s) ==
    IF s = <<>> THEN <<>>
    ELSE LET i == PyFind(s, <<"\n">>, 0)
         IN  IF i = -1 THEN <<s>>
             ELSE <<SubSeq(s, 1, i)>> \o SplitLines(SubSeq(s, i + 2, Len(s)))

Whitespace == {" ", "\t", "\n", "\f"}

\* the filter of line 213 letting every line through
KeepAll(line) == TRUE

\* line.strip() is non-empty
NonBlank(line) == \E i \in 1..Len(line) : line[i] \notin Whitespace

\* '\n'.join(lines)
RECURSIVE JoinLines(_)
JoinLines(lines) ==
    IF lines = <<>> THEN <<>>
    ELSE IF Len(lines) = 1 THEN lines[1]
    ELSE lines[1] \o <<"\n">> \o JoinLines(Tail(lines))

\* lines 212-213
Normalize(text) == JoinLines(SelectSeq(SplitLines(Unescape(text)), NonBlank))

(***************************************************************************)
(* The extraction service: landing pages, extraction answers, transcripts. *)
(***************************************************************************)
Rep(c, n) == [i \in 1..n |-> c]

\* the literal searched for at line 174
TokenField == <<"n", "a", "m", "e", "=", "\"", "_", "t", "o", "k", "e", "n", "\"", " ",
                "v", "a", "l", "u", "e", "=", "\"">>

\* the literal added to the position of the field at line 174
TokenOffset == 20

Tokens == {<<>>, <<"a">>, <<"a", "b">>}

\* a landing page is its body, with the token of its hidden field when it has one
LandingPages ==
    {[field |-> TRUE, token |-> t, body |-> pre \o TokenField \o t \o <<"\"", ">">>] :
        t \in Tokens, pre \in {<<>>, <<"<", "i">>}}
      \cup {[field |-> FALSE, token |-> <<>>, body |-> b] :
               b \in {<<>>, Rep("x", 5), Rep("x", 25),
                      Rep("x", 19) \o <<"\"", "x", "x">>,
                      Rep("x", 22) \o <<"\"", "x">>}}

NoPage == [field |-> FALSE, token |-> <<>>, body |-> <<>>]

\* the GET raises, or answers with a status and a body (one body for a non-ok status)
LandingResponses ==
    {[status |-> "exception", page |-> NoPage],
     [status |-> "notok",
      page |-> [field |-> TRUE, token |-> <<"a">>, body |-> TokenField \o <<"a", "\"", ">">>]]}
      \cup {[status |-> "ok", page |-> pg] : pg \in LandingPages}

TranscriptUrls == {<<"u1">>, <<"u2">>}

\* a JSON body: not JSON at all, or an object whose data key may be absent and
\* whose elements may lack the url key (an empty url is the string '')
JsonBodies ==
    {[valid |-> FALSE, hasData |-> FALSE, data |-> <<>>],
     [valid |-> TRUE, hasData |-> FALSE, data |-> <<>>],
     [valid |-> TRUE, hasData |-> TRUE, data |-> <<>>],
     [valid |-> TRUE, hasData |-> TRUE, data |-> <<[hasUrl |-> FALSE, url |-> <<>>]>>],
     [valid |-> TRUE, hasData |-> TRUE, data |-> <<[hasUrl |-> TRUE, url |-> <<>>]>>],
     [valid |-> TRUE, hasData |-> TRUE, data |-> <<[hasUrl |-> TRUE, url |-> <<"u1">>]>>],
     [valid |-> TRUE, hasData |-> TRUE,
      data |-> <<[hasUrl |-> TRUE, url |-> <<"u2">>], [hasUrl |-> TRUE, url |-> <<"u1">>]>>]}

NoJson == [valid |-> FALSE, hasData |-> FALSE, data |-> <<>>]

\* an extraction answer that names the transcript location u1
OkJson == [valid |-> TRUE, hasData |-> TRUE, data |-> <<[hasUrl |-> TRUE, url |-> <<"u1">>]>>]

ExtractResponses ==
    {[status |-> "exception", json |-> NoJson],
     [status |-> "notok",
      json |-> [valid |-> TRUE, hasData |-> TRUE, data |-> <<[hasUrl |-> TRUE, url |-> <<"u1">>]>>]]}
      \cup {[status |-> "ok", json |-> j] : j \in JsonBodies}

Texts ==
    {<<>>,
     <<"h", "i">>,
     <<"h", "i", "\n", "\n", " ", "\n", "i">>,
     <<" ", "\n">>,
     <<"a", "&", "a", "m", "p", ";", "i">>,
     <<"&", "a", "m", "p", ";", "l", "t", ";">>,
     <<"&", "l", "t", "h">>}

TranscriptResponses ==
    {[status |-> "exception", text |-> <<>>], [status |-> "notok", text |-> <<"h", "i">>]}
      \cup {[status |-> "ok", text |-> t] : t \in Texts}

Services ==
    [landing : LandingResponses, extract : ExtractResponses, transcript : TranscriptResponses]

NoService ==
    [landing |-> [status |-> "notok", page |-> NoPage],
     extract |-> [status |-> "notok", json |-> NoJson],
     transcript |-> [status |-> "notok", text |-> <<>>]]

ShortUrls == {ShortsUrl(it.videoId) : it \in SearchItems}

(***************************************************************************)
(* generar_transcripcion                                                   *)
(***************************************************************************)
None == [some |-> FALSE, text |-> <<>>]

Some(text) == [some |-> TRUE, text |-> text]

HttpRequest(op, sess, token, target) ==
    [op |-> op, session |-> sess, token |-> token, url |-> target]

TransInit ==
    /\ tPc = "idle"
    /\ url = <<>>
    /\ session = 0
    /\ service = NoService
    /\ reqs = <<>>
    /\ csrf_token = <<>>
    /\ transcript_url = <<>>
    /\ tResult = None
    /\ calls = 0

\* lines 162-164: a call starts with a session of its own
TCall ==
    /\ tPc \in {"idle", "done"}
    /\ calls < MaxCalls
    /\ calls' = calls + 1
    /\ session' = session + 1
    /\ \E u \in ShortUrls : url' = u
    /\ \E sv \in Services : service' = sv
    /\ reqs' = <<>>
    /\ csrf_token' = <<>>
    /\ transcript_url' = <<>>
    /\ tResult' = None
    /\ tPc' = "landing"

\* lines 174-176: the token cut out of the landing page
ExtractToken(content) ==
    LET token_start == PyFind(content, TokenField, 0) + TokenOffset
        token_end == PyFind(content, <<"\"">>, token_start)
    IN  PySlice(content, token_start, token_end)

\* lines 167-180 (217-219 when the GET raises)
FetchToken ==
    /\ tPc = "landing"
    /\ reqs' = Append(reqs, HttpRequest("GET_landing", session, <<>>, <<>>))
    /\ IF service.landing.status # "ok"
       THEN /\ tPc' = "done"
            /\ tResult' = None
            /\ UNCHANGED csrf_token
       ELSE LET token == ExtractToken(service.landing.page.body)
            IN  /\ csrf_token' = token
                /\ IF token = <<>>
                   THEN tPc' = "done" /\ tResult' = None
                   ELSE tPc' = "post" /\ UNCHANGED tResult
    /\ UNCHANGED <<url, session, service, transcript_url, calls>>

\* lines 203-207 without the test of extract_response.ok
ResolveLocationAnyStatus(resp) ==
    IF resp.status = "exception" THEN <<>>
    ELSE IF ~resp.json.valid THEN <<>>
    ELSE IF ~resp.json.hasData \/ Len(resp.json.data) = 0 THEN <<>>
    ELSE IF ~resp.json.data[1].hasUrl THEN <<>>
    ELSE resp.json.data[1].url

\* lines 203-207: the transcript location in the answer of the extraction POST;
\* <<>> stands for every path that falls through to line 216 or raises to 217
ResolveLocation(resp) ==
    IF resp.status # "ok" THEN <<>>
    ELSE IF ~resp.json.valid THEN <<>>
    ELSE IF ~resp.json.hasData \/ Len(resp.json.data) = 0 THEN <<>>
    ELSE IF ~resp.json.data[1].hasUrl THEN <<>>
    ELSE resp.json.data[1].url

\* lines 183-207 (216 on a fall-through, 217-219 on an exception)
SubmitExtraction ==
    /\ tPc = "post"
    /\ reqs' = Append(reqs, HttpRequest("POST_extract", session, csrf_token, url))
    /\ LET loc == ResolveLocation(service.extract)
       IN  /\ transcript_url' = loc
           /\ IF loc = <<>>
              THEN tPc' = "done" /\ tResult' = None
              ELSE tPc' = "get" /\ UNCHANGED tResult
    /\ UNCHANGED <<url, session, service, csrf_token, calls>>

\* lines 209-214 without the test of transcript_response.ok
TranscriptResultAnyStatus(resp) ==
    IF resp.status = "exception" THEN None ELSE Some(Normalize(resp.text))

\* lines 209-214: the value returned once the transcript GET has answered
TranscriptResult(resp) ==
    IF resp.status = "ok" THEN Some(Normalize(resp.text)) ELSE None

\* lines 209-216 (217-219 when the GET raises)
FetchTranscript ==
    /\ tPc = "get"
    /\ reqs' = Append(reqs, HttpRequest("GET_transcript", session, <<>>, transcript_url))
    /\ tResult' = TranscriptResult(service.transcript)
    /\ tPc' = "done"
    /\ UNCHANGED <<url, session, service, csrf_token, transcript_url, calls>>

(***************************************************************************)
(* main: one submission of the form.                                       *)
(***************************************************************************)
\* the upper end of the slider (50 at line 266), scaled with the cap
SliderMax == Cap

\* the values a user can type into the two text inputs (lines 253-261)
FormInputs == {"", "x"}

\* the text put in the row when there is no transcript (line 304)
Placeholder == <<"No se pudo generar la transcripcion">>

\* the services a record of main can meet: the landing GET raises; the page carries
\* the token field; no field and a transcript; no field and a transcript of blank
\* lines; no field and an extraction answer without url
MainServices ==
    {[landing |-> [status |-> "exception", page |-> NoPage],
      extract |-> [status |-> "exception", json |-> NoJson],
      transcript |-> [status |-> "exception", text |-> <<>>]],
     [landing |-> [status |-> "ok",
                   page |-> [field |-> TRUE, token |-> <<"a">>,
                             body |-> TokenField \o <<"a", "\"", ">">>]],
      extract |-> [status |-> "ok", json |-> OkJson],
      transcript |-> [status |-> "ok", text |-> <<"h", "i">>]]}
      \cup {[landing |-> [status |-> "ok",
                          page |-> [field |-> FALSE, token |-> <<>>, body |-> Rep("x", 25)]],
             extract |-> [status |-> "ok", json |-> j],
             transcript |-> [status |-> "ok", text |-> t]] :
               j \in {OkJson}, t \in {<<"h", "i">>, <<" ", "\n">>}}
      \cup {[landing |-> [status |-> "ok",
                          page |-> [field |-> FALSE, token |-> <<>>, body |-> Rep("x", 25)]],
             extract |-> [status |-> "ok",
                          json |-> [valid |-> TRUE, hasData |-> TRUE,
                                    data |-> <<[hasUrl |-> FALSE, url |-> <<>>]>>]],
             transcript |-> [status |-> "ok", text |-> <<"h", "i">>]]}

MainInit ==
    /\ mPc = "form"
    /\ max_shorts = 0
    /\ selected = <<>>
    /\ loop_i = 0
    /\ status_text = <<>>
    /\ transcript = None
    /\ results_df = <<>>
    /\ progress = <<>>
    /\ sleeps = 0
    /\ signal = "none"
    /\ returned = <<>>

\* lines 271-277: the button is pressed; an empty key or channel stops the run
MainSubmit ==
    /\ mPc = "form"
    /\ \E api_key \in FormInputs, channel_id \in FormInputs :
          IF api_key = "" \/ channel_id = ""
          THEN mPc' = "stopped" /\ signal' = "missing_input"
          ELSE mPc' = "enumerate" /\ UNCHANGED signal
    /\ UNCHANGED <<max_shorts, selected, loop_i, status_text, transcript, results_df,
                   progress, sleeps, returned>>

\* line 282 with the test always passing
HasResultsAlways(info) == TRUE

\* line 282: the truth of the returned list
HasResults(info) == info # <<>>

\* line 287 without the cut
SelectAll(info, m) == info

\* line 287: shorts_info[:max_shorts]
SelectRecords(info, m) == PySlice(info, 0, m)

\* line 304: Python truth of the returned value (None and '' are false)
Truthy(t) == t.some /\ t.text # <<>>

\* lines 300-305 with the returned value stored as it is
NewRowRaw(short, t) ==
    [video_id |-> short.video_id, title |-> short.title, url |-> short.url,
     transcripcion |-> t.text]

\* lines 300-305: the row of a record
NewRow(short, t) ==
    [video_id |-> short.video_id, title |-> short.title, url |-> short.url,
     transcripcion |-> IF Truthy(t) THEN t.text ELSE Placeholder]

\* line 308 without the + 1
ProgressValueFromZero(n, total) == <<n, total>>

\* line 308: the fraction given to the progress bar, kept as (completed, total)
ProgressValue(n, total) == <<n + 1, total>>


\* the locals of obtener_shorts_del_canal are gone once it has returned; its value
\* (line 280) and the reason of an abort are kept
EnumReturned ==
    /\ ePc' = "idle"
    /\ request' = FALSE
    /\ shorts_info' = <<>>
    /\ pageLen' = 0
    /\ idx' = 0
    /\ nextAvail' = FALSE
    /\ video_response' = NoMeta
    /\ pages' = 0
    /\ qualifying' = <<>>
    /\ failPage' = 0
    /\ lastClass' = "none"
    /\ UNCHANGED <<eResult, fatal>>

\* lines 280-284: the enumeration returned nothing
MainNoResults ==
    /\ mPc = "enumerate"
    /\ ePc = "done"
    /\ ~HasResults(eResult)
    /\ signal' = "no_results"
    /\ mPc' = "stopped"
    /\ EnumReturned
    /\ UNCHANGED <<max_shorts, selected, loop_i, status_text, transcript, results_df,
                   progress, sleeps, returned>>

\* lines 280-292: the enumeration returned records; they are cut to the slider's
\* value (read at line 263, first used here) and the table starts empty;
\* st.progress(0) of line 291 creates the bar and reports nothing yet
MainSelect ==
    /\ mPc = "enumerate"
    /\ ePc = "done"
    /\ HasResults(eResult)
    /\ \E m \in 1..SliderMax :
          /\ max_shorts' = m
          /\ selected' = SelectRecords(eResult, m)
    /\ results_df' = <<>>
    /\ progress' = <<>>
    /\ loop_i' = 0
    /\ mPc' = "loop"
    /\ EnumReturned
    /\ UNCHANGED <<status_text, transcript, sleeps, signal, returned>>

\* lines 295-298 (162-164 in the callee): the next record, its status line, and the
\* call of generar_transcripcion with the record's url
MainTranscribe ==
    /\ mPc = "loop"
    /\ loop_i < Len(selected)
    /\ status_text' = <<loop_i + 1, Len(selected)>>
    /\ mPc' = "transcribe"
    /\ calls' = calls + 1
    /\ session' = session + 1
    /\ url' = selected[loop_i + 1].url
    /\ \E sv \in MainServices : service' = sv
    /\ reqs' = <<>>
    /\ csrf_token' = <<>>
    /\ transcript_url' = <<>>
    /\ tResult' = None
    /\ tPc' = "landing"
    /\ UNCHANGED <<max_shorts, selected, loop_i, transcript, results_df, progress,
                   sleeps, signal, returned>>

\* lines 298-307: generar_transcripcion has returned; the row is appended
MainAppendRow ==
    /\ mPc = "transcribe"
    /\ tPc = "done"
    /\ transcript' = tResult
    /\ results_df' = Append(results_df, NewRow(selected[loop_i + 1], tResult))
    /\ mPc' = "progress"
    /\ tPc' = "idle"
    /\ url' = <<>>
    /\ service' = NoService
    /\ reqs' = <<>>
    /\ csrf_token' = <<>>
    /\ transcript_url' = <<>>
    /\ UNCHANGED <<tResult, session, calls>>
    /\ returned' = Append(returned, tResult)
    /\ UNCHANGED <<max_shorts, selected, loop_i, status_text, progress, sleeps, signal>>

\* line 308
MainProgress ==
    /\ mPc = "progress"
    /\ progress' = Append(progress, ProgressValue(loop_i, Len(selected)))
    /\ mPc' = "sleep"
    /\ UNCHANGED <<max_shorts, selected, loop_i, status_text, transcript, results_df,
                   sleeps, signal, returned>>

\* line 309, and the step of the for loop to the next record
MainSleep ==
    /\ mPc = "sleep"
    /\ sleeps' = sleeps + 1
    /\ loop_i' = loop_i + 1
    /\ mPc' = "loop"
    /\ UNCHANGED <<max_shorts, selected, status_text, transcript, results_df, progress,
                   signal, returned>>

\* lines 311-321: the loop is over
MainComplete ==
    /\ mPc = "loop"
    /\ loop_i = Len(selected)
    /\ signal' = "completed"
    /\ mPc' = "finished"
    /\ UNCHANGED <<max_shorts, selected, loop_i, status_text, transcript, results_df,
                   progress, sleeps, returned>>

(***************************************************************************)
(* The two cached functions: st.cache_data(ttl=3600) at line 80 and        *)
(* st.cache_data(ttl=600) at line 156. The decorator is code of the        *)
(* streamlit package; its behaviour is taken from the ResultCache contract *)
(* (get_or_compute; an entry is invalid once now - inserted_at > ttl). The *)
(* computation behind a miss is the whole function, run in one step.       *)
(***************************************************************************)
\* ttl of the cache of obtener_shorts_del_canal, in seconds
EnumTtl == 3600

\* ttl of the cache of generar_transcripcion, in seconds
TransTtl == 600

\* the amounts by which the clock advances between two calls
TickSizes == {TransTtl, TransTtl + 1, EnumTtl - TransTtl}

\* the argument tuples (api_key, channel_id) of obtener_shorts_del_canal
EnumKeys == {<<"k", "c1">>, <<"k", "c2">>}

NoEntry == [present |-> FALSE, value |-> <<>>, inserted_at |-> 0]

\* an entry that never expires
EntryValidForever(entry, t, ttl) == entry.present

\* the entry can answer a call made at time t
EntryValid(entry, t, ttl) == entry.present /\ t - entry.inserted_at <= ttl

\* a cache that keeps nothing
StoreNothing(cache, key, value, t) == cache

\* the computed value replaces the entry of the key, stamped with the time
StoreEntry(cache, key, value, t) ==
    [cache EXCEPT ![key] = [present |-> TRUE, value |-> value, inserted_at |-> t]]

\* lines 162-219 as a function of what the service answers
GenerarTranscripcion(sv) ==
    IF sv.landing.status # "ok" THEN None
    ELSE IF ExtractToken(sv.landing.page.body) = <<>> THEN None
    ELSE IF ResolveLocation(sv.extract) = <<>> THEN None
    ELSE TranscriptResult(sv.transcript)

\* the number of requests lines 162-219 send to that service
RequestCount(sv) ==
    IF sv.landing.status # "ok" THEN 1
    ELSE IF ExtractToken(sv.landing.page.body) = <<>> THEN 1
    ELSE IF ResolveLocation(sv.extract) = <<>> THEN 2
    ELSE 3

\* what obtener_shorts_del_canal can return: the empty list when the platform is
\* down (lines 112, 148, 154) or the channel has no short video, a list otherwise
EnumOutcomes(up) ==
    IF up = "down" THEN {<<>>}
    ELSE {<<>>} \cup {<<ShortRecord(it)>> : it \in SearchItems}

\* what the extraction service can answer: nothing when it is down; a page with the
\* token field or a transcript when it is up
ServiceOutcomes(up) ==
    IF up = "down"
    THEN {sv \in MainServices : sv.landing.status = "exception"}
    ELSE {sv \in MainServices :
            sv.landing.status = "ok" /\ sv.transcript.text = <<"h", "i">>
                                    /\ sv.extract.json = OkJson}

\* a call of a cached function at time t with the platform in state up: the entry
\* it found, whether the function body ran, the requests the body sent, the value
NoOp ==
    [fn |-> "none", key |-> <<>>, up |-> "up", found |-> FALSE, age |-> 0,
     computed |-> FALSE, requests |-> 0, value |-> <<>>]

\* the age at time t of the entry a call found (0 when it found none)
Age(entry, t) == IF entry.present THEN t - entry.inserted_at ELSE 0

CacheInit ==
    /\ now = 0
    /\ ticks = 0
    /\ upstream = "up"
    /\ ecache = [k \in EnumKeys |-> NoEntry]
    /\ tcache = [u \in ShortUrls |-> NoEntry]
    /\ lastOp = NoOp
    /\ ops = 0

\* time passes
Tick ==
    /\ ticks < MaxTicks
    /\ ticks' = ticks + 1
    /\ \E d \in TickSizes : now' = now + d
    /\ UNCHANGED <<upstream, ecache, tcache, lastOp, ops>>

\* the platform and the service go down, or come back
UpstreamChanges ==
    /\ upstream' = IF upstream = "up" THEN "down" ELSE "up"
    /\ UNCHANGED <<now, ticks, ecache, tcache, lastOp, ops>>

\* lines 80-81: a call of obtener_shorts_del_canal(api_key, channel_id); the body
\* sends at least the first search request
CachedEnumerate ==
    /\ ops < MaxOps
    /\ ops' = ops + 1
    /\ \E key \in EnumKeys :
          IF EntryValid(ecache[key], now, EnumTtl)
          THEN /\ lastOp' = [fn |-> "enum", key |-> key, up |-> upstream,
                             found |-> TRUE, age |-> Age(ecache[key], now),
                             computed |-> FALSE, requests |-> 0,
                             value |-> ecache[key].value]
               /\ UNCHANGED ecache
          ELSE \E v \in EnumOutcomes(upstream) :
                 /\ ecache' = StoreEntry(ecache, key, v, now)
                 /\ lastOp' = [fn |-> "enum", key |-> key, up |-> upstream,
                               found |-> ecache[key].present, age |-> Age(ecache[key], now),
                               computed |-> TRUE, requests |-> 1, value |-> v]
    /\ UNCHANGED <<now, ticks, upstream, tcache>>

\* lines 156-157: a call of generar_transcripcion(url)
CachedTranscribe ==
    /\ ops < MaxOps
    /\ ops' = ops + 1
    /\ \E key \in ShortUrls :
          IF EntryValid(tcache[key], now, TransTtl)
          THEN /\ lastOp' = [fn |-> "trans", key |-> key, up |-> upstream,
                             found |-> TRUE, age |-> Age(tcache[key], now),
                             computed |-> FALSE, requests |-> 0,
                             value |-> tcache[key].value]
               /\ UNCHANGED tcache
          ELSE \E sv \in ServiceOutcomes(upstream) :
                 /\ tcache' = StoreEntry(tcache, key, GenerarTranscripcion(sv), now)
                 /\ lastOp' = [fn |-> "trans", key |-> key, up |-> upstream,
                               found |-> tcache[key].present, age |-> Age(tcache[key], now),
                               computed |-> TRUE, requests |-> RequestCount(sv),
                               value |-> GenerarTranscripcion(sv)]
    /\ UNCHANGED <<now, ticks, upstream, ecache>>

(***************************************************************************)
(* The clean-up of lines 212-213 as a function of the body, applied to its *)
(* own output.                                                             *)
(***************************************************************************)
\* what a body is made of: encoded ampersand, encoded less-than, the tail of a
\* reference, a letter, a blank, a line end
Pieces ==
    {<<"&", "a", "m", "p", ";">>, <<"&", "l", "t", ";">>, <<"l", "t", ";">>,
     <<"x">>, <<" ">>, <<"\n">>}

\* the bodies made of at most n pieces
RECURSIVE Bodies(_)
Bodies(n) ==
    IF n = 0 THEN {<<>>}
    ELSE LET shorter == Bodies(n - 1)
         IN  shorter \cup {b \o pc : b \in shorter, pc \in Pieces}

NormTexts == Bodies(MaxPieces)

NormIdle ==
    /\ nPc = "input"
    /\ nText = <<>>
    /\ nOnce = <<>>
    /\ nTwice = <<>>

NormInit ==
    /\ nPc = "input"
    /\ nText \in NormTexts
    /\ nOnce = <<>>
    /\ nTwice = <<>>

\* lines 212-213 on the body of the transcript response
NormalizeBody ==
    /\ nPc = "input"
    /\ nOnce' = Normalize(nText)
    /\ nPc' = "once"
    /\ UNCHANGED <<nText, nTwice>>

\* lines 212-213 on a body that is already a cleaned text
NormalizeAgain ==
    /\ nPc = "once"
    /\ nTwice' = Normalize(nOnce)
    /\ nPc' = "twice"
    /\ UNCHANGED <<nText, nOnce>>

(***************************************************************************)
(* Specifications: each operation on its own, and main calling both.       *)
(***************************************************************************)
Init == EnumInit /\ TransInit /\ MainInit /\ NormIdle /\ CacheInit

InitNorm == EnumInit /\ TransInit /\ MainInit /\ NormInit /\ CacheInit

NextEnum ==
    \/ EnumCall /\ UNCHANGED <<transVars, mainVars, normVars, cacheVars>>
    \/ LoopTest /\ UNCHANGED <<transVars, mainVars, normVars, cacheVars>>
    \/ Execute /\ UNCHANGED <<transVars, mainVars, normVars, cacheVars>>
    \/ ProcessItem /\ UNCHANGED <<transVars, mainVars, normVars, cacheVars>>
    \/ ListNext /\ UNCHANGED <<transVars, mainVars, normVars, cacheVars>>

NextTrans ==
    \/ TCall /\ UNCHANGED <<enumVars, mainVars, normVars, cacheVars>>
    \/ FetchToken /\ UNCHANGED <<enumVars, mainVars, normVars, cacheVars>>
    \/ SubmitExtraction /\ UNCHANGED <<enumVars, mainVars, normVars, cacheVars>>
    \/ FetchTranscript /\ UNCHANGED <<enumVars, mainVars, normVars, cacheVars>>

\* main runs the enumeration inside line 280 and a transcript call inside line 298;
\* every call runs the function body (what a call answered from the cache returns
\* is a value the body returned before: SpecCache)
NextMain ==
    \/ MainSubmit /\ UNCHANGED <<enumVars, transVars, normVars, cacheVars>>
    \/ mPc = "enumerate" /\ EnumCall /\ UNCHANGED <<transVars, mainVars, normVars, cacheVars>>
    \/ mPc = "enumerate" /\ LoopTest /\ UNCHANGED <<transVars, mainVars, normVars, cacheVars>>
    \/ mPc = "enumerate" /\ Execute /\ UNCHANGED <<transVars, mainVars, normVars, cacheVars>>
    \/ mPc = "enumerate" /\ ProcessItem /\ UNCHANGED <<transVars, mainVars, normVars, cacheVars>>
    \/ mPc = "enumerate" /\ ListNext /\ UNCHANGED <<transVars, mainVars, normVars, cacheVars>>
    \/ MainNoResults /\ UNCHANGED <<transVars, normVars, cacheVars>>
    \/ MainSelect /\ UNCHANGED <<transVars, normVars, cacheVars>>
    \/ MainTranscribe /\ UNCHANGED <<enumVars, normVars, cacheVars>>
    \/ mPc = "transcribe" /\ FetchToken /\ UNCHANGED <<enumVars, mainVars, normVars, cacheVars>>
    \/ mPc = "transcribe" /\ SubmitExtraction /\ UNCHANGED <<enumVars, mainVars, normVars, cacheVars>>
    \/ mPc = "transcribe" /\ FetchTranscript /\ UNCHANGED <<enumVars, mainVars, normVars, cacheVars>>
    \/ MainAppendRow /\ UNCHANGED <<enumVars, normVars, cacheVars>>
    \/ MainProgress /\ UNCHANGED <<enumVars, transVars, normVars, cacheVars>>
    \/ MainSleep /\ UNCHANGED <<enumVars, transVars, normVars, cacheVars>>
    \/ MainComplete /\ UNCHANGED <<enumVars, transVars, normVars, cacheVars>>

SpecEnum == Init /\ [][NextEnum]_vars

SpecTrans == Init /\ [][NextTrans]_vars

SpecMain == Init /\ [][NextMain]_vars

NextNorm ==
    \/ NormalizeBody /\ UNCHANGED <<enumVars, transVars, mainVars, cacheVars>>
    \/ NormalizeAgain /\ UNCHANGED <<enumVars, transVars, mainVars, cacheVars>>

SpecNorm == InitNorm /\ [][NextNorm]_vars

NextCache ==
    \/ Tick /\ UNCHANGED <<enumVars, transVars, mainVars, normVars>>
    \/ UpstreamChanges /\ UNCHANGED <<enumVars, transVars, mainVars, normVars>>
    \/ CachedEnumerate /\ UNCHANGED <<enumVars, transVars, mainVars, normVars>>
    \/ CachedTranscribe /\ UNCHANGED <<enumVars, transVars, mainVars, normVars>>

SpecCache == Init /\ [][NextCache]_vars

\* every outbound call returns and the interpreter keeps running the script
FairSpecMain == SpecMain /\ WF_vars(NextMain)

(***************************************************************************)
(* Properties of obtener_shorts_del_canal (checked under SpecEnum).        *)
(***************************************************************************)
\* s is a subsequence of t: the elements of s occur in t in the same order
RECURSIVE IsSubsequence(_, _)
IsSubsequence(s, t) ==
    IF s = <<>> THEN TRUE
    ELSE IF t = <<>> THEN FALSE
    ELSE IF Head(s) = Head(t) THEN IsSubsequence(Tail(s), Tail(t))
    ELSE IsSubsequence(s, Tail(t))

PageFailed == fatal \in {"HttpError", "errorBody"}

\* C1: the sequence returned by obtener_shorts_del_canal never has more records
\* than the cap (50 in the source), whatever pages the platform returns; stated for
\* the results made only of videos that are short-form by the rule.
C1_ResultAtMostCap == (ePc = "done" /\ eResult = qualifying) => Len(eResult) <= Cap

\* C6: when no API call failed and the channel (all of it enumerated) has N <= cap
\* videos that are short-form by the rule, the result is exactly their N records,
\* in search order, each with the shorts URL of its video_id.
C6_ExactlyTheQualifying ==
    (/\ ePc = "done"
     /\ ~PageFailed
     /\ failPage = 0
     /\ idx = pageLen
     /\ ~nextAvail
     /\ Len(qualifying) <= Cap)
    => /\ eResult = qualifying
       /\ \A i \in 1..Len(eResult) : eResult[i].url = ShortsUrl(eResult[i].video_id)

\* a step of the for loop whose metadata lookup raised HttpError
LookupFailedStep == ePc = "items" /\ idx' = idx + 1 /\ video_response'.kind = "HttpError"

C8_PageFailureEmpty == (ePc = "done" /\ PageFailed) => eResult = <<>>

\* the second page failed after records were accumulated from the first
C8_Witness ==
    /\ ePc = "done"
    /\ fatal = "HttpError"
    /\ pages >= 2
    /\ shorts_info # <<>>
    /\ eResult = <<>>

\* C9: the duration test says short-form for a code without a minutes component or
\* with minutes 0, and not short-form for a code with minutes >= 1, hours or not.
C9_MinutesRule ==
    (video_response.kind = "video" /\ video_response.wf)
    => lastClass = (IF video_response.d.m = Absent \/ video_response.d.m = 0
                    THEN "short" ELSE "notshort")

\* C10: a malformed duration code is classified as not short-form, its video is left
\* out, and the enumeration goes on (no exception ends it).
C10_MalformedNotShort ==
    (video_response.kind = "video" /\ ~video_response.wf)
    => lastClass = "notshort" /\ fatal # "ValueError"

\* C11: the records of a returned sequence have pairwise distinct video_id, also
\* when the search pages list a video more than once; stated for the results made
\* only of videos that are short-form by the rule.
C11_DistinctVideoIds ==
    (ePc = "done" /\ eResult = qualifying)
    => \A i, j \in 1..Len(eResult) : i # j => eResult[i].video_id # eResult[j].video_id

(***************************************************************************)
(* Properties of generar_transcripcion (checked under SpecTrans).          *)
(***************************************************************************)
Returned == tPc = "done" /\ Len(reqs) >= 1

\* the extraction answer carries a transcript location
LocationPresent(resp) ==
    /\ resp.json.valid
    /\ resp.json.hasData
    /\ Len(resp.json.data) > 0
    /\ resp.json.data[1].hasUrl

\* every step of the protocol succeeds against this service
AllStepsSucceed(sv) ==
    /\ sv.landing.status = "ok"
    /\ sv.landing.page.field
    /\ sv.landing.page.token # <<>>
    /\ sv.extract.status = "ok"
    /\ LocationPresent(sv.extract)
    /\ sv.extract.json.data[1].url # <<>>
    /\ sv.transcript.status = "ok"

PostsSent == {i \in 1..Len(reqs) : reqs[i].op = "POST_extract"}

\* C2: when every protocol step succeeds the call returns the normalized transcript,
\* not None, and the POST carried exactly the token of the landing page's hidden field.
C2_SuccessReturnsTranscript ==
    (Returned /\ AllStepsSucceed(service))
    => /\ tResult = Some(Normalize(service.transcript.text))
       /\ \E i \in PostsSent : reqs[i].token = service.landing.page.token

\* C3: when the landing GET succeeds and the page has no token field, the call
\* returns None and sends no extraction POST.
C3_NoTokenNoPost ==
    (/\ Len(reqs) >= 1
     /\ service.landing.status = "ok"
     /\ ~service.landing.page.field)
    => /\ tPc = "done"
       /\ tResult = None
       /\ PostsSent = {}

RequestOrder == <<"GET_landing", "POST_extract", "GET_transcript">>

\* C4: the requests of a call are a prefix of landing GET, extraction POST, transcript
\* GET, all on the session created for this call; the POST is sent only after an ok
\* landing GET and the transcript GET only after an ok POST; a failed landing GET
\* (status or exception) gives None with no POST.
C4_RequestOrder ==
    /\ Len(reqs) <= 3
    /\ \A i \in 1..Len(reqs) : reqs[i].op = RequestOrder[i] /\ reqs[i].session = session
    /\ session = calls
    /\ Len(reqs) >= 2 => service.landing.status = "ok"
    /\ Len(reqs) >= 3 => service.extract.status = "ok"
    /\ (Len(reqs) >= 1 /\ service.landing.status # "ok")
         => (tPc = "done" /\ tResult = None /\ Len(reqs) = 1)

\* the second call of a run issued all three requests and returned a transcript
C4_Witness ==
    /\ tPc = "done"
    /\ calls = 2
    /\ Len(reqs) = 3
    /\ tResult.some

\* C5: once the POST has been sent, a non-ok POST, a body that is not JSON, an absent
\* or empty data, a first element without url: each gives None and no transcript GET;
\* a non-ok transcript GET gives None; a result that is not None is the normalized
\* body of an ok transcript GET, never anything else.
C5_FailuresGiveNone ==
    (Len(reqs) >= 2)
    => /\ (service.extract.status # "ok" \/ ~LocationPresent(service.extract))
            => (tPc = "done" /\ tResult = None /\ Len(reqs) = 2)
       /\ (Len(reqs) = 3 /\ service.transcript.status # "ok")
            => (tPc = "done" /\ tResult = None)
       /\ tResult.some
            => /\ Len(reqs) = 3
               /\ service.extract.status = "ok"
               /\ service.transcript.status = "ok"
               /\ tResult.text = Normalize(service.transcript.text)

\* the POST was answered ok with a data element that has no url: None, no transcript GET
C5_Witness ==
    /\ tPc = "done"
    /\ Len(reqs) = 2
    /\ service.extract.status = "ok"
    /\ service.extract.json.valid
    /\ service.extract.json.hasData
    /\ Len(service.extract.json.data) = 1
    /\ ~service.extract.json.data[1].hasUrl
    /\ tResult = None

(***************************************************************************)
(* Properties of main (checked under SpecMain).                            *)
(***************************************************************************)
\* the row carries the identity of the record
SameRecord(row, short) ==
    /\ row.video_id = short.video_id
    /\ row.title = short.title
    /\ row.url = short.url

\* C12: for a non-empty enumeration E and a slider value in 1..SliderMax, a run that
\* completes has exactly min(max_shorts, |E|) rows, row k carrying the video_id,
\* title and url of E[k], in order; while it runs the rows are the first loop
\* records of E, none skipped or repeated.
C12_RowsAreSelection ==
    (mPc \in {"loop", "transcribe", "progress", "sleep", "finished"})
    => /\ eResult # <<>>
       /\ max_shorts \in 1..SliderMax
       /\ Len(results_df) <= Min(max_shorts, Len(eResult))
       /\ \A k \in 1..Len(results_df) : SameRecord(results_df[k], eResult[k])
       /\ (mPc = "finished") => (Len(results_df) = Min(max_shorts, Len(eResult)))

\* a completed run whose enumeration had more records than the slider allowed, and
\* whose two rows are of different videos
C12_Witness ==
    /\ mPc = "finished"
    /\ max_shorts = 2
    /\ Len(eResult) > 2
    /\ Len(results_df) = 2
    /\ results_df[1].video_id # results_df[2].video_id

\* a transcript call starts, a row is appended, a progress value is reported
CallStarts == calls' = calls + 1

RowAppended == Len(results_df') = Len(results_df) + 1

ProgressReported == Len(progress') = Len(progress) + 1

\* what holds before a step that starts a call, appends a row or reports progress
StepsInOrder ==
    /\ CallStarts => (Len(results_df) = calls /\ Len(progress) = calls /\ sleeps = calls)
    /\ RowAppended => (tPc = "done" /\ Len(results_df) = calls - 1)
    /\ ProgressReported => (Len(results_df) = Len(progress) + 1 /\ sleeps = Len(progress))

\* C13: the records are processed one after the other: a record's transcript call
\* starts only when every earlier record has its row, its progress report and its
\* pause; the progress reports are (1,T), (2,T), ..., (T,T), one per record, each
\* made after the record's row was appended, and each followed by a pause before
\* the next transcript call.
C13_Sequential ==
    /\ []((mPc \in {"loop", "transcribe", "progress", "sleep", "finished"})
           => /\ \A k \in 1..Len(progress) : progress[k] = <<k, Len(selected)>>
              /\ Len(progress) <= Len(results_df)
              /\ Len(results_df) <= Len(selected)
              /\ sleeps <= Len(progress)
              /\ (mPc = "finished")
                    => (Len(progress) = Len(selected) /\ sleeps = Len(selected)))
    /\ [][StepsInOrder]_vars

\* the second of three records has been reported as (2, 3) and its pause is next
C13_Witness ==
    /\ mPc = "sleep"
    /\ Len(selected) = 3
    /\ progress = <<<<1, 3>>, <<2, 3>>>>
    /\ sleeps = 1
    /\ Len(results_df) = 2

\* C14: when the enumeration returns the empty sequence (nothing matched, or it
\* aborted), main shows the no-results error and stops: no transcript call, no
\* progress report, no row, no pause.
C14_EmptyStops ==
    (mPc \notin {"form", "enumerate"} /\ signal # "missing_input" /\ eResult = <<>>)
    => /\ mPc = "stopped"
       /\ signal = "no_results"
       /\ calls = 0
       /\ results_df = <<>>
       /\ progress = <<>>
       /\ sleeps = 0

\* the enumeration aborted on a failed search page and main stopped
C14_Witness ==
    /\ mPc = "stopped"
    /\ signal = "no_results"
    /\ fatal = "HttpError"
    /\ calls = 0

\* C15: a transcript call that returns None does not end the run: the record gets a
\* row with the placeholder, the rows already there stay as they are, the loop goes
\* on, and a run that completes has called generar_transcripcion once for every
\* selected record, each row holding what its own call returned.
C15_FailureContinues ==
    /\ [][(RowAppended /\ tResult = None)
            => /\ results_df' = Append(results_df, [video_id |-> selected[loop_i + 1].video_id,
                                                     title |-> selected[loop_i + 1].title,
                                                     url |-> selected[loop_i + 1].url,
                                                     transcripcion |-> Placeholder])
               /\ mPc' = "progress"
               /\ signal' = signal]_vars
    /\ []((mPc = "finished")
           => /\ calls = Len(selected)
              /\ Len(returned) = Len(selected)
              /\ Len(results_df) = Len(selected)
              /\ \A k \in 1..Len(returned) :
                    (returned[k].some /\ returned[k].text # <<>>)
                       => (results_df[k].transcripcion = returned[k].text))

\* the call of the first record returned None; the second record was still called
\* and has its transcript
C15_Witness ==
    /\ mPc = "finished"
    /\ Len(returned) >= 2
    /\ returned[1] = None
    /\ results_df[1].transcripcion = Placeholder
    /\ returned[2] = Some(<<"h", "i">>)
    /\ results_df[2].transcripcion = <<"h", "i">>
    /\ calls = Len(selected)

\* C19: a row holds the placeholder only when its call returned None; every text a
\* call returned, the empty text included, is in the row as it was returned.
C19_PlaceholderOnlyForNone ==
    \A k \in 1..Len(results_df) :
        results_df[k].transcripcion =
            (IF returned[k].some THEN returned[k].text ELSE Placeholder)

\* a search page is requested
SearchRequested == pages' > pages

\* the run of main is over
RunOver == mPc \in {"finished", "stopped"}

\* C20: when every outbound call returns, a run of main ends. A search page is
\* requested only while there is a cursor and fewer than Cap records; the loop of the
\* enumeration ends at the first test that finds no cursor or Cap records, and no
\* page is requested after it; a completed run has called generar_transcripcion
\* exactly once for each selected record.
C20_Terminates ==
    /\ <>RunOver
    /\ [][SearchRequested => (request /\ Len(shorts_info) < Cap)]_vars
    /\ [][(ePc = "loop" /\ (~request \/ Len(shorts_info) >= Cap))
            => (ePc' = "done" /\ pages' = pages)]_vars
    /\ [][(ePc = "done" \/ mPc \notin {"form", "enumerate"}) => ~SearchRequested]_vars
    /\ []((mPc = "finished")
           => (calls = Len(selected) /\ loop_i = Len(selected) /\ signal = "completed"))
    /\ [][CallStarts => (mPc = "loop" /\ calls = loop_i)]_vars

\* a run that enumerated up to the cap and called the transcript of each selected
\* record has completed
C20_Witness ==
    /\ mPc = "finished"
    /\ Len(eResult) >= Cap
    /\ Len(selected) = Cap
    /\ calls = Cap
    /\ signal = "completed"

(***************************************************************************)
(* Properties of the clean-up of lines 212-213 (checked under SpecNorm).   *)
(***************************************************************************)
\* C18 as stated: cleaning a cleaned text changes nothing, for every body, the
\* doubly-encoded ones such as &amp;lt; included.
C18_Idempotent == (nPc = "twice") => (nTwice = nOnce)

\* C18 amended: cleaning a cleaned text changes nothing whenever the cleaned text
\* holds no character reference that html.unescape decodes (the body had no
\* doubly-encoded entity); blank lines never come back.
C18_IdempotentWithoutReferences ==
    (nPc = "twice" /\ Unescape(nOnce) = nOnce) => (nTwice = nOnce)

\* a body with an encoded ampersand and a blank line: cleaned to a text that keeps
\* its ampersand and differs from the body, cleaned again to the same text
C18_Witness ==
    /\ nPc = "twice"
    /\ "\n" \in Range(nText)
    /\ nOnce # nText
    /\ "&" \in Range(nOnce)
    /\ Unescape(nOnce) = nOnce
    /\ nTwice = nOnce

(***************************************************************************)
(* Properties of the two cached functions (checked under SpecCache).       *)
(***************************************************************************)
\* the ttl of the function the last call was made to
TtlOf(op) == IF op.fn = "enum" THEN EnumTtl ELSE TransTtl

\* the entry now held for the key of the last call
EntryOf(op) == IF op.fn = "enum" THEN ecache[op.key] ELSE tcache[op.key]

\* the value is the one a failed computation returns: [] or None
FailedValue(fn, value) == IF fn = "enum" THEN value = <<>> ELSE value = None

\* C16: for both cached functions (3600 s for the enumeration keyed by api_key and
\* channel_id, 600 s for the transcript keyed by url): a call that finds an entry of
\* its own key younger than the ttl does not run the function body, so two calls
\* with the same key inside the window run it once; a call that finds no entry of
\* its key, or one older than the ttl, runs the body and its value is stored.
C16_ComputeOncePerWindow ==
    (lastOp.fn # "none")
    => /\ (lastOp.found /\ lastOp.age < TtlOf(lastOp))
            => (~lastOp.computed /\ lastOp.requests = 0)
       /\ (~lastOp.found \/ lastOp.age > TtlOf(lastOp))
            => /\ lastOp.computed
               /\ lastOp.requests >= 1
               /\ EntryOf(lastOp).present
               /\ EntryOf(lastOp).value = lastOp.value

\* the second call for a url came more than 600 s after the first and ran the body again
C16_Witness ==
    /\ ops = 2
    /\ lastOp.fn = "trans"
    /\ lastOp.found
    /\ lastOp.age = TransTtl + 1
    /\ lastOp.computed
    /\ lastOp.requests = 3

\* C17: a computation that returns [] or None is stored like any other; a call with
\* the same key inside the ttl returns that [] or None and sends no request, also
\* when the platform and the service are up again.
C17_FailuresAreCached ==
    (lastOp.fn # "none")
    => /\ (lastOp.computed /\ FailedValue(lastOp.fn, lastOp.value))
            => /\ EntryOf(lastOp).present
               /\ FailedValue(lastOp.fn, EntryOf(lastOp).value)
       /\ (/\ lastOp.found
           /\ lastOp.age < TtlOf(lastOp)
           /\ FailedValue(lastOp.fn, EntryOf(lastOp).value))
            => /\ ~lastOp.computed
               /\ lastOp.requests = 0
               /\ FailedValue(lastOp.fn, lastOp.value)

\* the enumeration of a channel is asked again 3000 s after it returned []: the
\* platform is up, the call returns [] without a request
C17_Witness ==
    /\ ops = 2
    /\ lastOp.fn = "enum"
    /\ lastOp.found
    /\ lastOp.age = EnumTtl - TransTtl
    /\ lastOp.up = "up"
    /\ ~lastOp.computed
    /\ lastOp.requests = 0
    /\ lastOp.value = <<>>

====
